---- MODULE Spec2Model ----
(***************************************************************************)
(* Model of the Nairobi property scraper (nairobi_property_scraper_v2.py): *)
(* the text normalizer, the record builder, the four per-source pagination *)
(* loops, the browser runner, the deduplicator, the writer and main().     *)
(*                                                                         *)
(* Text is modelled by TLA+ strings.  A fetched page is modelled by what   *)
(* the extractor's selectors and regular expressions find in it: the list  *)
(* of listing blocks with the text of their title, price and link nodes,   *)
(* and whether a next-page link is present.                                *)
(***************************************************************************)
EXTENDS Integers, Sequences, FiniteSets, TLC

VARIABLES
    HAS_PW,      \* the playwright import succeeded (module level, lines 24-28)
    pc,          \* position of main(): "loop", "ret", "run_pw", "dedup", "save", "done", "aborted"
    src,         \* source whose scrape function is running
    lt,          \* listing_type argument of the running scrape function
    slug,        \* index into PIGIAME_SLUGS[listing_type] (PigiaMe only)
    pn,          \* page number of the next request of the running loop
    total,       \* scrape_jiji's local total (-1 stands for None)
    results,     \* the running scrape function's local results list
    pwResults,   \* run_pw's local results list
    all_,        \* main's all_ list
    output,      \* rows of the output file (header apart)
    saved,       \* save() has written OUTPUT
    pages,       \* history: pages fetched so far by the running scrape function
    slugPages,   \* history: pages fetched so far for the current slug
    emptySeen,   \* history: a fetched page of the running function yielded no record
    extracted,   \* history: every record the run's scrape functions took from their pages
    lastPage,    \* history: the last page the running scrape function requested
    reqs,        \* history: the (slug, page number) requests of the running scrape function
    returned,    \* history: how many scrape functions have returned
    header,      \* the header row of the output file (<<>> before save)
    unslept,     \* history: the last page request was fetched and no sleep() has followed it
    arg,         \* input of the function under test (function-level specifications)
    ret,         \* its result
    called,      \* the function has been applied
    orch,        \* pipeline: the orchestrator, "weekly" (weekly_pipeline.py) or "airflow" (the DAG)
    run,         \* pipeline: number of the periodic run in progress
    stage,       \* pipeline: index in Stages of the task to start next; 5 when the run is over
    tries,       \* pipeline: failed attempts of that task so far (Airflow retries)
    status,      \* pipeline: outcome of each task of the run
    fs,          \* pipeline: for each file, the run and the stage that wrote it last
    readLog,     \* pipeline, history: the input file of each task started in the run
    emails       \* pipeline: the emails sent in the run

vars == <<HAS_PW, pc, src, lt, slug, pn, total, results, pwResults, all_,
          output, saved, pages, slugPages, emptySeen, extracted,
          lastPage, reqs, returned, header, unslept, arg, ret, called,
          orch, run, stage, tries, status, fs, readLog, emails>>

runVars == <<HAS_PW, pc, src, lt, slug, pn, total, results, pwResults, all_,
             output, saved, pages, slugPages, emptySeen, extracted,
             lastPage, reqs, returned, header, unslept>>

fnVars == <<arg, ret, called>>

pipeVars == <<orch, run, stage, tries, status, fs, readLog, emails>>

(***************************************************************************)
(* Bounds of the model.                                                    *)
(***************************************************************************)
\* MAX_PAGES is 10 in the source (line 33); the model runs a smaller configuration.
MAX_PAGES == 2
\* most listing blocks on one page of a run
MaxCards == 1
\* most records one run extracts over all its pages
MaxRecords == 2
\* longest record list given to dedup in the function-level specification
MaxDedupLen == 3
\* most <h2> blocks of a page given to parse_brk in the function-level specification
MaxH2 == 3
\* most tokens of the script text given to parse_jiji_adverts
MaxTokens == 5
\* longest string given to c in the function-level specification
MaxStrLen == 4

(***************************************************************************)
(* Strings.                                                                *)
(***************************************************************************)
Char(s, i) == SubSeq(s, i, i)

\* the character standing for U+00A0 (no-break space)
NBSP == "_"

\* what \s matches once "\xa0" has been replaced
IsSpace(ch) == ch \in {" ", "\t", "\n"}

StartsWith(s, p) == Len(s) >= Len(p) /\ SubSeq(s, 1, Len(p)) = p

Contains(s, sub) ==
    \E i \in 1..(Len(s) - Len(sub) + 1) : SubSeq(s, i, i + Len(sub) - 1) = sub

\* str.replace("\xa0", " "); a string without the character is returned as it is
RECURSIVE ReplaceNbsp(_)
ReplaceNbsp(s) ==
    IF ~Contains(s, NBSP) THEN s
    ELSE (IF Char(s, 1) = NBSP THEN " " ELSE Char(s, 1))
         \o ReplaceNbsp(SubSeq(s, 2, Len(s)))

\* a substitution that leaves the runs of whitespace as they are
CollapseWs_KeepRuns(s) == s

\* re.sub(r"\s+", " ", s): every maximal run of whitespace becomes one space; a
\* string without whitespace is returned as it is
RECURSIVE CollapseWs(_)
CollapseWs(s) ==
    IF \A i \in 1..Len(s) : ~IsSpace(Char(s, i)) THEN s
    ELSE IF IsSpace(Char(s, 1))
         THEN IF Len(s) >= 2 /\ IsSpace(Char(s, 2))
              THEN CollapseWs(SubSeq(s, 2, Len(s)))
              ELSE " " \o CollapseWs(SubSeq(s, 2, Len(s)))
         ELSE Char(s, 1) \o CollapseWs(SubSeq(s, 2, Len(s)))

\* str.strip()
RECURSIVE Strip(_)
Strip(s) ==
    IF s = "" THEN ""
    ELSE IF IsSpace(Char(s, 1)) \/ Char(s, 1) = NBSP THEN Strip(SubSeq(s, 2, Len(s)))
    ELSE IF IsSpace(Char(s, Len(s))) \/ Char(s, Len(s)) = NBSP
         THEN Strip(SubSeq(s, 1, Len(s) - 1))
    ELSE s

\* c(v), lines 60-61; None and "" are both modelled by ""
c(v) == Strip(CollapseWs(ReplaceNbsp(v)))

(***************************************************************************)
(* Records.                                                                *)
(***************************************************************************)
FIELDS == <<"source", "listing_type", "title", "price", "location",
            "bedrooms", "bathrooms", "size_sqm", "property_type", "url", "scraped_at">>

FieldSet == {FIELDS[i] : i \in 1..Len(FIELDS)}

\* datetime.now().isoformat(): the clock is not modelled, every row gets this stamp
NOW == "T"

\* the listing_type None that parse_brk passes to row
NoneLt == "None"

\* a row that holds only the columns it was given
row_OnlyGiven(s, l, kw) ==
    [f \in DOMAIN kw \cup {"source", "listing_type", "scraped_at"} |->
        CASE f = "source" -> s
          [] f = "listing_type" -> l
          [] f = "scraped_at" -> NOW
          [] OTHER -> c(kw[f])]

\* row(src, lt, **kw), lines 63-66: kw is a record holding the keyword arguments
row(s, l, kw) ==
    [f \in FieldSet |->
        CASE f = "source" -> s
          [] f = "listing_type" -> l
          [] f = "scraped_at" -> NOW
          [] OTHER -> IF f \in DOMAIN kw THEN c(kw[f]) ELSE c("")]

(***************************************************************************)
(* dedup(lst), lines 568-575.                                              *)
(***************************************************************************)
\* k = r.get("url") or (r.get("title","") + r.get("price",""))
DedupKey(r) == IF r["url"] # "" THEN r["url"] ELSE r["title"] \o r["price"]

\* the loop of dedup from index i on, with the keys seen and the output so far
RECURSIVE DedupLoop(_, _, _, _)
DedupLoop(lst, i, seen, out) ==
    IF i > Len(lst) THEN out
    ELSE LET k == DedupKey(lst[i])
         IN  IF k # "" /\ k \notin seen
             THEN DedupLoop(lst, i + 1, seen \cup {k}, Append(out, lst[i]))
             ELSE DedupLoop(lst, i + 1, seen, out)

\* a dedup that forgets which keys it has seen
dedup_NoSeen(lst) ==
    SelectSeq(lst, LAMBDA r : DedupKey(r) # "")

\* a dedup that keeps the last record of each key instead of the first
RECURSIVE DedupLastLoop(_, _, _, _)
DedupLastLoop(lst, i, seen, out) ==
    IF i < 1 THEN out
    ELSE LET k == DedupKey(lst[i])
         IN  IF k # "" /\ k \notin seen
             THEN DedupLastLoop(lst, i - 1, seen \cup {k}, <<lst[i]>> \o out)
             ELSE DedupLastLoop(lst, i - 1, seen, out)

dedup_KeepLast(lst) == DedupLastLoop(lst, Len(lst), {}, <<>>)

dedup(lst) == DedupLoop(lst, 1, {}, <<>>)

(***************************************************************************)
(* 1. BuyRentKenya: parse_brk(html, base), lines 102-171.                  *)
(* html is the list of the page's <h2> elements in document order, each a  *)
(* record: title (the h2's text), h3 (the text of its next <h3> sibling,   *)
(* "" when there is none), href (the href of the nearest enclosing <a>     *)
(* within six parents, "" when there is none), loc, beds, baths, size      *)
(* (what lines 132-154 find among the following siblings, "" for nothing). *)
(***************************************************************************)
Digits == {"0", "1", "2", "3", "4", "5", "6", "7", "8", "9"}

\* the character class [\s\d,] (\s matches U+00A0 too)
KshClass(ch) == IsSpace(ch) \/ ch = NBSP \/ ch \in Digits \/ ch = ","

\* the end of the maximal run of [\s\d,] that starts at i
RECURSIVE KshRunEnd(_, _)
KshRunEnd(t, i) ==
    IF i < Len(t) /\ KshClass(Char(t, i + 1)) THEN KshRunEnd(t, i + 1) ELSE i

\* re.search(r"KSh[\s\d,]+", t): the matched text, "" when nothing matches
ReSearchKsh(t) ==
    LET starts == {i \in 1..(Len(t) - 3) :
                      SubSeq(t, i, i + 2) = "KSh" /\ KshClass(Char(t, i + 3))}
    IN  IF starts = {} THEN ""
        ELSE LET i == CHOOSE x \in starts : \A y \in starts : x <= y
             IN  SubSeq(t, i, KshRunEnd(t, i + 3))

\* lines 106-162: the rows appended to results, one h2 after the other
RECURSIVE BrkRows(_, _, _)
BrkRows(html, base, i) ==
    IF i > Len(html) THEN <<>>
    ELSE LET h2    == html[i]
             title == c(h2.title)
             price == IF h2.h3 = "" THEN "" ELSE c(ReSearchKsh(h2.h3))
             href  == IF Contains(h2.href, "/listings/")
                      THEN IF StartsWith(h2.href, "http") THEN h2.href
                           ELSE base \o h2.href
                      ELSE ""
             rest  == BrkRows(html, base, i + 1)
         IN  IF title = "" \/ Len(title) < 8 THEN rest
             ELSE IF price = "" THEN rest
             ELSE <<row("BuyRentKenya", NoneLt,
                        [title |-> title, price |-> price, location |-> h2.loc,
                         bedrooms |-> h2.beds, bathrooms |-> h2.baths,
                         size_sqm |-> h2.size, url |-> href])>> \o rest

\* lines 164-171: the page renders each listing twice, keep the first of each title+price
RECURSIVE BrkUnique(_, _, _, _)
BrkUnique(rs, i, seen, unique) ==
    IF i > Len(rs) THEN unique
    ELSE LET k == rs[i]["title"] \o rs[i]["price"]
         IN  IF k \notin seen
             THEN BrkUnique(rs, i + 1, seen \cup {k}, Append(unique, rs[i]))
             ELSE BrkUnique(rs, i + 1, seen, unique)

\* a parse_brk that returns results without the title+price pass
parse_brk_NoUnique(html, base) == BrkRows(html, base, 1)

parse_brk(html, base) == BrkUnique(BrkRows(html, base, 1), 1, {}, <<>>)

BRK_BASE == "https://www.buyrentkenya.com"


(***************************************************************************)
(* The pagination loops.  Every loop is "for pn in range(1, MAX_PAGES+1)". *)
(***************************************************************************)
\* a range that runs one page too far
PageRange_OffByOne == 1..(MAX_PAGES + 1)

\* range(1, MAX_PAGES + 1), lines 184, 270, 338 and 441
PageRange == 1..MAX_PAGES

Disp(l) == IF l = "sale" THEN "Sale" ELSE "Rent"

\* records of the run so far, and how many more the model lets the pages hold
RunCount == Len(all_) + Len(pwResults) + Len(results)
Budget == IF MaxRecords > RunCount THEN MaxRecords - RunCount ELSE 0
PageMax == IF Budget < MaxCards THEN Budget ELSE MaxCards

\* the sequences over S of length at most n
SeqsUpTo(S, n) == UNION {[1..k -> S] : k \in 0..n}

\* history of the last page requested: failed (fetch returned (None, None), or
\* page.goto raised), next (the page shows a next-page link), noDom (no card
\* selector matched), texts (the text blocks of such a page) and ran (the strategies
\* applied to it, in the order of their application, each with the number of
\* records it gave) and faulty (the extraction of one of its cards or adverts
\* raised)
NoPage == [failed |-> FALSE, next |-> FALSE, noDom |-> FALSE, texts |-> 0, ran |-> <<>>,
           faulty |-> FALSE]

\* a card of the list makes its extraction raise
Faulty(units) == \E i \in 1..Len(units) : units[i].fault

FailedPage == [NoPage EXCEPT !.failed = TRUE]

Strategy(name, rows) == [s |-> name, n |-> Len(rows)]

\* the records a page added
RECURSIVE Added(_)
Added(ran) == IF ran = <<>> THEN 0 ELSE Head(ran).n + Added(Tail(ran))

\* the request of page pn of the current slug is recorded
Request == reqs' = Append(reqs, [slug |-> slug, pn |-> pn])

\* a loop that goes on with the same page number
Continue_SamePage ==
    IF pn + 1 \in PageRange
    THEN /\ pc' = "loop"
         /\ pn' = pn
    ELSE /\ pc' = "ret"
         /\ pn' = pn

\* sleep() and asleep(), lines 68-72: the wait of random.uniform(*DELAY) seconds
Sleep == unslept' = FALSE

\* the iteration ends without a sleep(); ok: its page was fetched
NoSleep(ok) == unslept' = ok

\* the loop goes on to page pn + 1, or the range is exhausted and the function returns
Continue ==
    IF pn + 1 \in PageRange
    THEN /\ pc' = "loop"
         /\ pn' = pn + 1
    ELSE /\ pc' = "ret"
         /\ pn' = pn

\* a loop that requests the page again
Break_Retry == pc' = "loop" /\ pn' = pn

\* break
Break == pc' = "ret" /\ pn' = pn

\* scrape_brk, lines 193-194: tag the listing type
TagLt(rs, l) == [i \in 1..Len(rs) |-> [rs[i] EXCEPT !["listing_type"] = l]]

\* a scrape_brk that drops what it has when a fetch fails
BrkResults_DropOnFail(res, page, l) ==
    IF ~page.ok THEN <<>> ELSE res \o TagLt(parse_brk(page.h2s, BRK_BASE), l)

\* scrape_brk, lines 187-196: results after the page
BrkResults(res, page, l) ==
    IF ~page.ok THEN res ELSE res \o TagLt(parse_brk(page.h2s, BRK_BASE), l)

\* the <h2> blocks the pages of a run are made of
BrkRunBlocks ==
    { [title |-> "Bedsit A1", h3 |-> "Bedsit A1KSh 1", href |-> "https://u.ke/listings/a1",
       loc |-> "", beds |-> "", baths |-> "", size |-> ""],
      [title |-> "Menu", h3 |-> "", href |-> "",
       loc |-> "", beds |-> "", baths |-> "", size |-> ""] }

\* what fetch returns for a BuyRentKenya page: (None, None), or the page with its
\* h2 blocks and whether lines 202-203 find a next link
BrkFetches ==
    {[ok |-> FALSE, h2s |-> <<>>, next |-> FALSE]} \cup
    [ok : {TRUE}, h2s : SeqsUpTo(BrkRunBlocks, PageMax), next : BOOLEAN]

\* one iteration of the loop of scrape_brk, lines 184-206.  (In the page actions a
\* local of the loop body is bound by \E over a one-element set: the value is then
\* computed once for the step.)
ScrapeBrkPage ==
    /\ pc = "loop"
    /\ src = "BuyRentKenya"
    /\ \E page \in BrkFetches :
         \E page_rows \in {IF page.ok THEN TagLt(parse_brk(page.h2s, BRK_BASE), Disp(lt))
                           ELSE <<>>} :
             /\ results' = BrkResults(results, page, Disp(lt))
             /\ extracted' = extracted \o page_rows
             /\ pages' = pages + 1
             /\ slugPages' = (IF pn = 1 THEN 1 ELSE slugPages + 1)
             /\ emptySeen' = (emptySeen \/ (page.ok /\ page_rows = <<>>))
             /\ Request
             /\ lastPage' = IF ~page.ok THEN FailedPage
                            ELSE [NoPage EXCEPT !.next = page.next,
                                                !.ran = <<Strategy("primary", page_rows)>>]
             /\ IF ~page.ok THEN Break /\ NoSleep(FALSE)
                ELSE IF page_rows = <<>> THEN Break /\ NoSleep(TRUE)
                ELSE IF ~page.next THEN Break /\ NoSleep(TRUE)
                ELSE Continue /\ Sleep
    /\ UNCHANGED <<HAS_PW, src, lt, slug, total, pwResults, all_, output, saved,
                   returned, header>>
    /\ UNCHANGED fnVars
    /\ UNCHANGED pipeVars


(***************************************************************************)
(* 2. Jiji: scrape_jiji, lines 257-319.                                    *)
(* An advert is a record of the JSON object's members the loop reads       *)
(* (title, value for price_obj.value, price, url; "" for a missing one);    *)
(* bad marks a JSON value on which lines 289-311 raise (not an object,     *)
(* attrs a string, url a number).                                          *)
(***************************************************************************)
JIJI_BASE == "https://jiji.co.ke"

\* lines 289-311: the row of one advert
JijiRow(adv, l) ==
    LET price == IF adv.value # "" THEN Strip("KSh " \o adv.value) ELSE adv.price
        href  == IF adv.url # "" /\ ~StartsWith(adv.url, "http")
                 THEN JIJI_BASE \o adv.url ELSE adv.url
    IN  row("Jiji", l, [title |-> adv.title, price |-> price, location |-> "",
                        bedrooms |-> "", bathrooms |-> "", size_sqm |-> "",
                        property_type |-> "", url |-> href])

\* lines 288-311: the rows appended before the loop ends or an advert raises
RECURSIVE JijiRows(_, _, _)
JijiRows(adverts, l, i) ==
    IF i > Len(adverts) \/ adverts[i].bad THEN <<>>
    ELSE <<JijiRow(adverts[i], l)>> \o JijiRows(adverts, l, i + 1)

\* an advert of the page makes lines 289-311 raise
JijiRaises(adverts) == \E i \in 1..Len(adverts) : adverts[i].bad

\* lines 313-314: page_size = len(adverts) or 20;
\* total and len(results) >= min(total, MAX_PAGES * page_size)
JijiEnough(tot, res, adverts) ==
    LET page_size == IF Len(adverts) # 0 THEN Len(adverts) ELSE 20
        cap == IF tot < MAX_PAGES * page_size THEN tot ELSE MAX_PAGES * page_size
    IN  tot # 0 /\ Len(res) >= cap

(***************************************************************************)
(* parse_jiji_adverts(html), lines 221-250, on one <script> text.          *)
(* The text that follows the "adverts": key is a sequence of tokens:       *)
(*   "["  "]"  ","   brackets and commas                                   *)
(*   "{}"           a complete advert object (no bracket inside)           *)
(*   "{"            the beginning of an object that is cut off             *)
(*   "tc"           the text  ,"total_count": N  that follows the array    *)
(* The value returned is the list of the array's elements, "{}" for an     *)
(* object and "list" for a nested array.                                   *)
(***************************************************************************)
JsonTokens == {"[", "]", ",", "{}", "{", "tc"}

\* json.loads on a token sequence: the index after the value that starts at i,
\* 0 when no JSON value starts there
RECURSIVE JsonValueEnd(_, _), JsonElemsEnd(_, _)
JsonValueEnd(ts, i) ==
    IF i > Len(ts) THEN 0
    ELSE IF ts[i] = "{}" THEN i + 1
    ELSE IF ts[i] = "["
         THEN IF i + 1 <= Len(ts) /\ ts[i + 1] = "]" THEN i + 2
              ELSE JsonElemsEnd(ts, i + 1)
    ELSE 0

JsonElemsEnd(ts, i) ==
    LET j == JsonValueEnd(ts, i)
    IN  IF j = 0 \/ j > Len(ts) THEN 0
        ELSE IF ts[j] = "]" THEN j + 1
        ELSE IF ts[j] = "," THEN JsonElemsEnd(ts, j + 1)
        ELSE 0

\* json.loads(ts) does not raise
JsonOk(ts) == ts # <<>> /\ ts[1] = "[" /\ JsonValueEnd(ts, 1) = Len(ts) + 1

\* the elements of the array json.loads(ts) returns, from index i at depth d
RECURSIVE JsonElems(_, _, _)
JsonElems(ts, i, d) ==
    IF i > Len(ts) THEN <<>>
    ELSE IF ts[i] = "[" THEN (IF d = 1 THEN <<"list">> ELSE <<>>) \o JsonElems(ts, i + 1, d + 1)
    ELSE IF ts[i] = "]" THEN JsonElems(ts, i + 1, d - 1)
    ELSE IF ts[i] = "{}" /\ d = 1 THEN <<"{}">> \o JsonElems(ts, i + 1, d)
    ELSE JsonElems(ts, i + 1, d)

JsonLoads(ts) == JsonElems(ts, 1, 0)

\* lines 228-231: the end of group 1 of the regular expression that matches, 0
\* when neither matches: the array runs lazily from the "[" after the key to the
\* first "]" followed by ,"total_count", else to the first "]", with at least
\* one character in between
ReAdvertsEnd(ts) ==
    IF ts = <<>> \/ ts[1] # "[" THEN 0
    ELSE LET strict == {j \in 3..(Len(ts) - 1) : ts[j] = "]" /\ ts[j + 1] = "tc"}
             broad  == {j \in 3..Len(ts) : ts[j] = "]"}
             Min(S) == CHOOSE x \in S : \A y \in S : x <= y
         IN  IF strict # {} THEN Min(strict)
             ELSE IF broad # {} THEN Min(broad)
             ELSE 0

\* lines 237-249: the balanced-bracket scan from index i on; [ok, val] is what
\* the function returns from inside the scan, ok = FALSE when it returns nothing
RECURSIVE BalancedScan(_, _, _, _)
BalancedScan(ts, i, depth, start) ==
    IF i > Len(ts) THEN [ok |-> FALSE, val |-> <<>>]
    ELSE IF ts[i] = "["
         THEN BalancedScan(ts, i + 1, depth + 1, IF start = 0 THEN i ELSE start)
    ELSE IF ts[i] = "]"
         THEN IF depth - 1 = 0 /\ start # 0
              THEN IF JsonOk(SubSeq(ts, start, i))
                   THEN [ok |-> TRUE, val |-> JsonLoads(SubSeq(ts, start, i))]
                   ELSE [ok |-> FALSE, val |-> <<>>]
              ELSE BalancedScan(ts, i + 1, depth - 1, start)
    ELSE BalancedScan(ts, i + 1, depth, start)

\* lines 223-250 for a page whose only script with the key holds the tokens ts
parse_jiji_adverts(ts) ==
    LET e == ReAdvertsEnd(ts)
    IN  IF e = 0 THEN <<>>
        ELSE IF JsonOk(SubSeq(ts, 1, e)) THEN JsonLoads(SubSeq(ts, 1, e))
        ELSE BalancedScan(ts, 1, 0, 0).val

\* the adverts the pages of a run are made of
JijiRunAdverts ==
    { [title |-> "Bedsit A1", value |-> "1", price |-> "",
       url |-> "https://u.ke/listings/a1", bad |-> FALSE],
      [title |-> "", value |-> "", price |-> "", url |-> "", bad |-> FALSE],
      [title |-> "", value |-> "", price |-> "", url |-> "", bad |-> TRUE] }

\* what fetch returns for a Jiji page: (None, None), or the page with what
\* parse_jiji_total and parse_jiji_adverts find in it
JijiFetches ==
    {[ok |-> FALSE, total_count |-> 0, adverts |-> <<>>, next |-> FALSE]} \cup
    [ok : {TRUE}, total_count : 0..MaxRecords, adverts : SeqsUpTo(JijiRunAdverts, PageMax),
     next : BOOLEAN]

\* one iteration of the loop of scrape_jiji, lines 270-316
ScrapeJijiPage ==
    /\ pc = "loop"
    /\ src = "Jiji"
    /\ \E page \in JijiFetches :
         \E tot \in {IF total = -1 THEN page.total_count ELSE total},
            rows \in {JijiRows(page.adverts, Disp(lt), 1)} :
             /\ pages' = pages + 1
             /\ slugPages' = (IF pn = 1 THEN 1 ELSE slugPages + 1)
             /\ Request
             /\ lastPage' = IF ~page.ok THEN FailedPage
                            ELSE [NoPage EXCEPT !.next = page.next,
                                                !.ran = <<Strategy("primary", rows)>>,
                                                !.faulty = JijiRaises(page.adverts)]
             /\ IF ~page.ok
                THEN /\ Break
                     /\ NoSleep(FALSE)
                     /\ UNCHANGED <<total, results, extracted, emptySeen>>
                ELSE /\ total' = tot
                     /\ results' = results \o rows
                     /\ extracted' = extracted \o rows
                     /\ emptySeen' = (emptySeen \/ page.adverts = <<>>)
                     /\ IF page.adverts = <<>> THEN Break /\ NoSleep(TRUE)
                        ELSE IF JijiRaises(page.adverts)
                        THEN pc' = "aborted" /\ pn' = pn /\ NoSleep(TRUE)
                        ELSE IF JijiEnough(tot, results \o rows, page.adverts)
                        THEN Break /\ NoSleep(TRUE)
                        ELSE Continue /\ Sleep
    /\ UNCHANGED <<HAS_PW, src, lt, slug, pwResults, all_, output, saved, returned, header>>
    /\ UNCHANGED fnVars
    /\ UNCHANGED pipeVars


(***************************************************************************)
(* 3. Property24: scrape_p24, lines 329-413.                               *)
(* A page is: primary (the .p24_regularTile elements), fallback (the       *)
(* [class*='p24_'] elements), texts (the strings matching KSh[\s\d,]+).    *)
(* A card is a record of the text of the nodes lines 363-366 select        *)
(* (title, price, loc, href; "" for no node), text (the card's whole       *)
(* text), and fault: lines 363-384 raise on it.  A text block is a record  *)
(* of block (the parent's text) and heading (the previous h2/h3/h4's       *)
(* text, "" for none).                                                     *)
(***************************************************************************)
P24_BASE == "https://www.property24.co.ke"

\* lines 350-359: the cards of the page
P24Cards(page) ==
    IF page.primary # <<>> THEN page.primary
    ELSE SelectSeq(page.fallback, LAMBDA cd : Contains(cd.text, "KSh"))

\* lines 361-388: the rows the cards add, a card that raises being skipped
RECURSIVE P24CardRows(_, _)
P24CardRows(cards, l) ==
    IF cards = <<>> THEN <<>>
    ELSE LET cd   == Head(cards)
             href == IF cd.href # "" /\ ~StartsWith(cd.href, "http")
                     THEN P24_BASE \o cd.href ELSE cd.href
             r_   == row("Property24", l, [title |-> cd.title, price |-> cd.price,
                                           location |-> cd.loc, bedrooms |-> "",
                                           bathrooms |-> "", size_sqm |-> "",
                                           url |-> href])
             rest == P24CardRows(Tail(cards), l)
         IN  IF cd.fault THEN rest
             ELSE IF r_["title"] # "" \/ r_["price"] # "" THEN <<r_>> \o rest
             ELSE rest

\* lines 393-407: the rows of the text blocks
RECURSIVE P24TextRows(_, _)
P24TextRows(texts, l) ==
    IF texts = <<>> THEN <<>>
    ELSE LET price_m == ReSearchKsh(Head(texts).block)
             rest    == P24TextRows(Tail(texts), l)
         IN  IF price_m = "" THEN rest
             ELSE <<row("Property24", l, [title |-> Strip(Head(texts).heading),
                                          price |-> price_m,
                                          location |-> "Nairobi"])>> \o rest

\* a text extraction applied to every page
P24TextApplies_Always(withCards) == TRUE

\* line 391, if not results: the text extraction is applied
P24TextApplies(withCards) == withCards = <<>>

\* lines 350-407: results after the page
P24Results(res, page, l) ==
    LET withCards == res \o P24CardRows(P24Cards(page), l)
    IN  withCards \o (IF P24TextApplies(withCards) THEN P24TextRows(page.texts, l)
                      ELSE <<>>)

\* lines 350-407: the strategies applied to the page, in order, each with the
\* number of records it gave
P24Ran(res, page, l) ==
    LET cardRows == P24CardRows(P24Cards(page), l)
    IN  (IF page.primary # <<>> THEN <<Strategy("primary", cardRows)>>
         ELSE <<Strategy("primary", <<>>), Strategy("fallback", cardRows)>>)
        \o (IF P24TextApplies(res \o cardRows)
            THEN <<Strategy("text", P24TextRows(page.texts, l))>> ELSE <<>>)

\* the cards and text blocks the pages of a run are made of
RunCards ==
    { [title |-> "Bedsit A1", price |-> "KSh 1", loc |-> "", href |-> "/a1",
       text |-> "Bedsit A1 KSh 1", fault |-> FALSE],
      [title |-> " ", price |-> "", loc |-> "", href |-> "", text |-> " ",
       fault |-> FALSE],
      [title |-> "", price |-> "", loc |-> "", href |-> "", text |-> "",
       fault |-> TRUE] }

P24RunTexts == { [block |-> "From KSh 1", heading |-> "Bedsit A1"] }

\* the rendered pages page.goto and page.content give
P24Pages ==
    {pg \in [primary : SeqsUpTo(RunCards, PageMax), fallback : SeqsUpTo(RunCards, PageMax),
             texts : SeqsUpTo(P24RunTexts, PageMax), next : BOOLEAN] :
        pg.primary # <<>> => pg.fallback = <<>>}

\* one iteration of the loop of scrape_p24, lines 338-410; nav is the outcome of
\* page.goto: "ok", "error" (caught, line 344); content that of page.content(),
\* which is outside the try
ScrapeP24Page ==
    /\ pc = "loop"
    /\ src = "Property24"
    /\ pages' = pages + 1
    /\ slugPages' = (IF pn = 1 THEN 1 ELSE slugPages + 1)
    /\ \/ /\ Break                                   \* nav error
          /\ NoSleep(FALSE)
          /\ Request
          /\ lastPage' = FailedPage
          /\ UNCHANGED <<results, extracted, emptySeen>>
       \/ /\ pc' = "aborted"                         \* page.content() raises
          /\ pn' = pn
          /\ NoSleep(TRUE)
          /\ Request
          /\ lastPage' = NoPage
          /\ UNCHANGED <<results, extracted, emptySeen>>
       \/ \E page \in P24Pages :
             \E res \in {P24Results(results, page, Disp(lt))} :
                 /\ results' = res
                 /\ extracted' = extracted \o SubSeq(res, Len(results) + 1, Len(res))
                 /\ emptySeen' = (emptySeen \/ Len(res) = Len(results))
                 /\ Request
                 /\ lastPage' = [failed |-> FALSE, next |-> page.next,
                                 noDom |-> P24Cards(page) = <<>>,
                                 texts |-> IF P24Cards(page) = <<>> THEN Len(page.texts)
                                           ELSE 0,
                                 ran |-> P24Ran(results, page, Disp(lt)),
                                 faulty |-> Faulty(P24Cards(page))]
                 /\ Continue
                 /\ Sleep
    /\ UNCHANGED <<HAS_PW, src, lt, slug, total, pwResults, all_, output, saved,
                   returned, header>>
    /\ UNCHANGED fnVars
    /\ UNCHANGED pipeVars


(***************************************************************************)
(* 4. PigiaMe: scrape_pigiame, lines 432-517.                              *)
(* A page is: cards (the elements the selector of lines 455-460 finds),    *)
(* blocks (the (title_raw, price_raw) pairs re.findall gives on the html,  *)
(* lines 466-471) and next (lines 510-511 find a next link).               *)
(***************************************************************************)
PIGIAME_BASE == "https://www.pigiame.co.ke"

\* PIGIAME_SLUGS, lines 427-430
PIGIAME_SLUGS ==
    [sale |-> <<"houses-for-sale", "apartments-for-sale">>,
     rent |-> <<"houses-for-rent", "apartments-for-rent">>]

\* the end of the maximal run of characters of class Cls that starts after i
RECURSIVE RunEnd(_, _, _)
RunEnd(t, i, Cls) ==
    IF i < Len(t) /\ Char(t, i + 1) \in Cls THEN RunEnd(t, i + 1, Cls) ELSE i

\* re.search(r'(\d+)\s*[Bb]ed', t): group(0), "" when nothing matches
ReSearchBed(t) ==
    LET Ws == {" ", "\t", "\n", NBSP}
        EndAt(i) == LET d == RunEnd(t, i, Digits)
                        w == RunEnd(t, d, Ws)
                    IN  IF w + 3 <= Len(t) /\ SubSeq(t, w + 1, w + 3) \in {"Bed", "bed"}
                        THEN w + 3 ELSE 0
        starts == {i \in 1..Len(t) : Char(t, i) \in Digits /\ EndAt(i) # 0}
    IN  IF starts = {} THEN ""
        ELSE LET i == CHOOSE x \in starts : \A y \in starts : x <= y
             IN  SubSeq(t, i, EndAt(i))

\* lines 472-481: the rows of the text blocks
RECURSIVE PigiameTextRows(_, _)
PigiameTextRows(blocks, l) ==
    IF blocks = <<>> THEN <<>>
    ELSE LET t == c(Head(blocks).title_raw)
             p == c(Head(blocks).price_raw)
             rest == PigiameTextRows(Tail(blocks), l)
         IN  IF t # "" /\ p # "" /\ Len(t) > 5
             THEN <<row("PigiaMe", l, [title |-> t, price |-> p,
                                       bedrooms |-> ReSearchBed(t),
                                       location |-> "Nairobi"])>> \o rest
             ELSE rest

\* lines 486-506: the rows the cards add, a card that raises being skipped
RECURSIVE PigiameCardRows(_, _)
PigiameCardRows(cards, l) ==
    IF cards = <<>> THEN <<>>
    ELSE LET cd   == Head(cards)
             href == IF cd.href # "" /\ ~StartsWith(cd.href, "http")
                     THEN PIGIAME_BASE \o cd.href ELSE cd.href
             r_   == row("PigiaMe", l, [title |-> cd.title, price |-> cd.price,
                                        location |-> cd.loc, bedrooms |-> "",
                                        url |-> href])
             rest == PigiameCardRows(Tail(cards), l)
         IN  IF cd.fault THEN rest
             ELSE IF r_["title"] # "" THEN <<r_>> \o rest
             ELSE rest

\* lines 463-481: results after the text extraction of a page without cards
PigiameAfterText(res, page, l) ==
    IF page.cards = <<>> THEN res \o PigiameTextRows(page.blocks, l) ELSE res

\* lines 455-506: the strategies applied to the page, in order, each with the
\* number of records it gave
PigiameRan(page, l) ==
    <<Strategy("primary", PigiameCardRows(page.cards, l))>>
    \o (IF page.cards = <<>> THEN <<Strategy("text", PigiameTextRows(page.blocks, l))>>
        ELSE <<>>)

PigiameRunBlocks == { [title_raw |-> "2 Bed House x", price_raw |-> "KSh 1"] }

\* the rendered pages page.goto and page.content give
PigiamePages ==
    {pg \in [cards : SeqsUpTo(RunCards, PageMax), blocks : SeqsUpTo(PigiameRunBlocks, PageMax),
             next : BOOLEAN] :
        pg.cards # <<>> => pg.blocks = <<>>}

\* the inner loop of a slug ends: on to the next slug, or out of the outer loop
SlugDone ==
    IF slug < Len(PIGIAME_SLUGS[lt])
    THEN /\ slug' = slug + 1
         /\ pn' = 1
         /\ pc' = "loop"
    ELSE /\ slug' = slug
         /\ pn' = pn
         /\ pc' = "ret"

\* the inner loop goes on to page pn + 1, or its range is exhausted
SlugContinue ==
    IF pn + 1 \in PageRange
    THEN /\ pn' = pn + 1
         /\ pc' = "loop"
         /\ slug' = slug
    ELSE SlugDone

\* one iteration of the inner loop of scrape_pigiame, lines 441-514
ScrapePigiamePage ==
    /\ pc = "loop"
    /\ src = "PigiaMe"
    /\ pages' = pages + 1
    /\ slugPages' = (IF pn = 1 THEN 1 ELSE slugPages + 1)
    /\ \/ /\ SlugDone                                \* nav error, line 448
          /\ NoSleep(FALSE)
          /\ Request
          /\ lastPage' = FailedPage
          /\ UNCHANGED <<results, extracted, emptySeen>>
       \/ /\ pc' = "aborted"                         \* page.content() raises
          /\ NoSleep(TRUE)
          /\ Request
          /\ lastPage' = NoPage
          /\ UNCHANGED <<results, extracted, emptySeen, pn, slug>>
       \/ \E page \in PigiamePages :
             \E afterText \in {PigiameAfterText(results, page, Disp(lt))} :
             \E res \in {IF page.cards = <<>> /\ afterText # <<>> THEN afterText
                         ELSE afterText \o PigiameCardRows(page.cards, Disp(lt))} :
                 /\ results' = res
                 /\ extracted' = extracted \o SubSeq(res, Len(results) + 1, Len(res))
                 /\ emptySeen' = (emptySeen \/ Len(res) = Len(results))
                 /\ Request
                 /\ lastPage' = [failed |-> FALSE, next |-> page.next,
                                 noDom |-> page.cards = <<>>,
                                 texts |-> Len(page.blocks),
                                 ran |-> PigiameRan(page, Disp(lt)),
                                 faulty |-> Faulty(page.cards)]
                 /\ IF page.cards = <<>> /\ afterText # <<>> THEN SlugDone /\ NoSleep(TRUE)
                    ELSE IF ~page.next THEN SlugDone /\ NoSleep(TRUE)
                    ELSE SlugContinue /\ Sleep
    /\ UNCHANGED <<HAS_PW, src, lt, total, pwResults, all_, output, saved, returned, header>>
    /\ UNCHANGED fnVars
    /\ UNCHANGED pipeVars


(***************************************************************************)
(* run_pw, lines 530-561, and main, lines 588-606.                         *)
(***************************************************************************)
\* a call that passes the other listing type
StartScrape_OtherType(s, l) ==
    /\ pc' = "loop"
    /\ src' = s
    /\ lt' = (IF l = "sale" THEN "rent" ELSE "sale")
    /\ slug' = 1
    /\ pn' = 1
    /\ total' = -1
    /\ results' = <<>>
    /\ pages' = 0
    /\ slugPages' = 0
    /\ emptySeen' = FALSE
    /\ lastPage' = NoPage
    /\ reqs' = <<>>

\* the scrape function starts: its locals, and the history of its pages
StartScrape(s, l) ==
    /\ pc' = "loop"
    /\ src' = s
    /\ lt' = l
    /\ slug' = 1
    /\ pn' = 1
    /\ total' = -1
    /\ results' = <<>>
    /\ pages' = 0
    /\ slugPages' = 0
    /\ emptySeen' = FALSE
    /\ lastPage' = NoPage
    /\ reqs' = <<>>

\* all_.extend(...), lines 597-603, and results.extend(...), lines 555-558
MainCollect(acc, res) == acc \o res

\* main, lines 597-600: a requests-based scrape function has returned
MainExtend ==
    /\ pc = "ret"
    /\ src \in {"BuyRentKenya", "Jiji"}
    /\ all_' = MainCollect(all_, results)
    /\ IF src = "BuyRentKenya" /\ lt = "sale" THEN StartScrape("BuyRentKenya", "rent")
       ELSE IF src = "BuyRentKenya" THEN StartScrape("Jiji", "sale")
       ELSE IF lt = "sale" THEN StartScrape("Jiji", "rent")
       ELSE /\ pc' = "run_pw"
            /\ results' = <<>>
            /\ pages' = 0
            /\ slugPages' = 0
            /\ emptySeen' = FALSE
            /\ lastPage' = NoPage
            /\ reqs' = <<>>
            /\ UNCHANGED <<src, lt, slug, pn, total>>
    /\ returned' = returned + 1
    /\ Sleep
    /\ UNCHANGED <<HAS_PW, pwResults, output, saved, extracted, header>>
    /\ UNCHANGED fnVars
    /\ UNCHANGED pipeVars

\* run_pw, lines 530-553: without playwright it returns [] and main goes on to
\* dedup; else the browser, context and page are set up, which may raise
RunPwStart ==
    /\ pc = "run_pw"
    /\ IF ~HAS_PW
       THEN /\ all_' = MainCollect(all_, <<>>)
            /\ pc' = "dedup"
            /\ UNCHANGED <<src, lt, slug, pn, total, results, pages, slugPages, emptySeen,
                           lastPage, reqs>>
       ELSE /\ all_' = all_
            /\ \/ StartScrape("Property24", "sale")
               \/ /\ pc' = "aborted"
                  /\ UNCHANGED <<src, lt, slug, pn, total, results, pages, slugPages,
                                 emptySeen, lastPage, reqs>>
    /\ UNCHANGED <<HAS_PW, pwResults, output, saved, extracted, returned, header, unslept>>
    /\ UNCHANGED fnVars
    /\ UNCHANGED pipeVars

\* run_pw, lines 555-561: a browser scrape function has returned; after the last
\* one run_pw returns its results and main extends all_ with them (line 603)
RunPwExtend ==
    /\ pc = "ret"
    /\ src \in {"Property24", "PigiaMe"}
    /\ IF src = "Property24" /\ lt = "sale"
       THEN /\ StartScrape("Property24", "rent")
            /\ pwResults' = MainCollect(pwResults, results)
            /\ all_' = all_
            /\ Sleep
       ELSE IF src = "Property24"
       THEN /\ StartScrape("PigiaMe", "sale")
            /\ pwResults' = MainCollect(pwResults, results)
            /\ all_' = all_
            /\ Sleep
       ELSE IF lt = "sale"
       THEN /\ StartScrape("PigiaMe", "rent")
            /\ pwResults' = MainCollect(pwResults, results)
            /\ all_' = all_
            /\ Sleep
       ELSE /\ pc' = "dedup"
            /\ pwResults' = <<>>
            /\ all_' = MainCollect(all_, MainCollect(pwResults, results))
            /\ results' = <<>>
            /\ pages' = 0
            /\ slugPages' = 0
            /\ emptySeen' = FALSE
            /\ lastPage' = NoPage
            /\ reqs' = <<>>
            /\ UNCHANGED <<src, lt, slug, pn, total, unslept>>
    /\ returned' = returned + 1
    /\ UNCHANGED <<HAS_PW, output, saved, extracted, header>>
    /\ UNCHANGED fnVars
    /\ UNCHANGED pipeVars

\* main, line 605: all_ = dedup(all_)
MainDedup ==
    /\ pc = "dedup"
    /\ all_' = dedup(all_)
    /\ pc' = "save"
    /\ UNCHANGED <<HAS_PW, src, lt, slug, pn, total, results, pwResults, output, saved,
                   pages, slugPages, emptySeen, extracted, lastPage, reqs, returned,
                   header, unslept>>
    /\ UNCHANGED fnVars
    /\ UNCHANGED pipeVars

\* main, line 606, and save, lines 577-581
MainSave ==
    /\ pc = "save"
    /\ header' = FIELDS
    /\ output' = all_
    /\ saved' = TRUE
    /\ pc' = "done"
    /\ UNCHANGED <<HAS_PW, src, lt, slug, pn, total, results, pwResults, all_,
                   pages, slugPages, emptySeen, extracted, lastPage, reqs, returned,
                   unslept>>
    /\ UNCHANGED fnVars
    /\ UNCHANGED pipeVars

\* no function is under test in a run
FnIdle == arg = <<>> /\ ret = <<>> /\ called = FALSE

\* no pipeline is running
PipeIdle ==
    /\ orch = ""
    /\ run = 0
    /\ stage = 0
    /\ tries = 0
    /\ status = <<>>
    /\ fs = <<>>
    /\ readLog = <<>>
    /\ emails = <<>>

\* the state when main is entered: all_ = [] and scrape_brk("sale") is called
Init ==
    /\ HAS_PW \in BOOLEAN
    /\ pc = "loop"
    /\ src = "BuyRentKenya"
    /\ lt = "sale"
    /\ slug = 1
    /\ pn = 1
    /\ total = -1
    /\ results = <<>>
    /\ pwResults = <<>>
    /\ all_ = <<>>
    /\ output = <<>>
    /\ saved = FALSE
    /\ pages = 0
    /\ slugPages = 0
    /\ emptySeen = FALSE
    /\ extracted = <<>>
    /\ lastPage = NoPage
    /\ reqs = <<>>
    /\ returned = 0
    /\ header = <<>>
    /\ unslept = FALSE
    /\ FnIdle
    /\ PipeIdle

Next ==
    \/ ScrapeBrkPage
    \/ ScrapeJijiPage
    \/ ScrapeP24Page
    \/ ScrapePigiamePage
    \/ MainExtend
    \/ RunPwStart
    \/ RunPwExtend
    \/ MainDedup
    \/ MainSave

Spec == Init /\ [][Next]_vars

(***************************************************************************)
(* Properties of a run (specification Spec).                               *)
(***************************************************************************)
KeysUnique(lst) ==
    \A i, j \in 1..Len(lst) : i # j => DedupKey(lst[i]) # DedupKey(lst[j])

\* C1: once dedup has run, no two records of the list main passes to save, and
\* no two rows of the file save writes, have the same derived dedup key (url if
\* non-empty, else title followed by price).
C1_DedupKeyUnique ==
    /\ pc \in {"save", "done"} => KeysUnique(all_)
    /\ saved => KeysUnique(output)

\* C1 witness: a run whose sources produced two records with the same key has
\* written its file.
C1_Witness ==
    /\ saved
    /\ output # <<>>
    /\ \E i, j \in 1..Len(extracted) :
         i < j /\ DedupKey(extracted[i]) # "" /\ DedupKey(extracted[i]) = DedupKey(extracted[j])

\* C2 as stated: for every (source, listing type) pair the number of pages
\* requested is at most MAX_PAGES.
C2_PagesAtMostMax == pages <= MAX_PAGES

\* C2 amended: a loop over one URL slug requests at most MAX_PAGES pages; the
\* BuyRentKenya, Jiji and Property24 pairs have one slug, a PigiaMe pair has one
\* loop for each of its slugs and requests at most MAX_PAGES pages per slug.
C2_PagesBoundedPerSlug ==
    /\ slugPages <= MAX_PAGES
    /\ src # "PigiaMe" => pages <= MAX_PAGES
    /\ src = "PigiaMe" => pages <= Len(PIGIAME_SLUGS[lt]) * MAX_PAGES

\* C2 witness: a PigiaMe pair has returned after MAX_PAGES pages of each slug.
C2_Witness ==
    /\ src = "PigiaMe"
    /\ pc = "ret"
    /\ slugPages = MAX_PAGES
    /\ pages = Len(PIGIAME_SLUGS[lt]) * MAX_PAGES

\* C3: once a fetched page of a (source, listing type) pair has yielded no
\* record, no further page is requested for that pair.
C3_StopsAtFirstEmptyPage == [][pages' > pages => ~emptySeen]_vars

\* C4: while the sources are being scraped and until dedup runs, the records
\* returned to main and to run_pw, followed by those the running scrape function
\* holds, are exactly the records taken from the pages processed so far, in
\* order: no way of ending a loop discards a record.
C4_PartialResultsKept ==
    pc \in {"loop", "ret", "run_pw", "dedup"} => all_ \o pwResults \o results = extracted

\* C4 witness: a loop that had records ended on an empty page before the page
\* bound, and an earlier source's records are in all_.
C4_Witness ==
    /\ pc = "ret"
    /\ emptySeen
    /\ results # <<>>
    /\ all_ # <<>>

\* C5: whatever fails inside a card, a page or a source, the run is never cut
\* short: main always goes on to dedup and save.
C5_RunNeverAborts == pc # "aborted"

\* C6: without playwright no Property24 or PigiaMe page is requested and the run
\* is never cut short before the output file is written.
C6_NoBrowserStillSaves ==
    ~HAS_PW => (src \in {"BuyRentKenya", "Jiji"} /\ pc # "aborted")

\* C8: no record an extractor has emitted has both title and price empty.
C8_NoEmptyRecordEmitted ==
    \A i \in 1..Len(extracted) : extracted[i]["title"] # "" \/ extracted[i]["price"] # ""


\* the place of a strategy in the chain: primary selector, fallback selector, text
Rank(s) == CASE s = "primary" -> 1 [] s = "fallback" -> 2 [] s = "text" -> 3

\* C11: the strategies applied to a page are applied in the order of the chain
\* (primary selector, fallback selector, text extraction), and a later strategy
\* is applied to the page only if every earlier one gave no record for that page.
C11_LaterStrategyOnlyAfterEmpty ==
    \A i, j \in DOMAIN lastPage.ran :
        i < j => /\ Rank(lastPage.ran[i].s) < Rank(lastPage.ran[j].s)
                 /\ lastPage.ran[i].n = 0

\* C11 witness: on a Property24 page the primary and the fallback selector gave
\* nothing and the text extraction, applied third, gave a record.
C11_Witness ==
    /\ src = "Property24"
    /\ Len(lastPage.ran) = 3
    /\ lastPage.ran[3].s = "text"
    /\ lastPage.ran[3].n > 0

\* C12: a page of a browser source on which no card selector matches and which
\* holds N text blocks adds exactly N records, whatever its page number and
\* whatever the earlier pages gave.
C12_TextBlocksAlwaysExtracted ==
    (src \in {"Property24", "PigiaMe"} /\ lastPage.noDom)
        => Added(lastPage.ran) = lastPage.texts

\* the order in which the (source, listing type) pairs are to be processed
PairOrder ==
    << <<"BuyRentKenya", "sale">>, <<"BuyRentKenya", "rent">>,
       <<"Jiji", "sale">>,         <<"Jiji", "rent">>,
       <<"Property24", "sale">>,   <<"Property24", "rent">>,
       <<"PigiaMe", "sale">>,      <<"PigiaMe", "rent">> >>

\* C13: the pairs are processed one after the other in the order BuyRentKenya
\* sale, BuyRentKenya rent, Jiji sale, Jiji rent, Property24 sale, Property24
\* rent, PigiaMe sale, PigiaMe rent: the k-th pair's loop runs, and requests its
\* pages, when exactly the k-1 pairs before it have returned.  (main has one
\* control location and each page action is one request, so no two requests
\* are in progress together.)
C13_PairsInOrder ==
    (pc \in {"loop", "ret"} \/ reqs # <<>>)
        => /\ returned < Len(PairOrder)
           /\ PairOrder[returned + 1] = <<src, lt>>

\* C13 witness: the last pair, PigiaMe rent, has requested a page after the
\* seven pairs before it have returned.
C13_Witness ==
    /\ src = "PigiaMe"
    /\ lt = "rent"
    /\ returned = 7
    /\ reqs # <<>>

\* the eleven columns of the output schema, in the order of the file
Columns ==
    <<"source", "listing_type", "title", "price", "location", "bedrooms",
      "bathrooms", "size_sqm", "property_type", "url", "scraped_at">>

HasAllColumns(lst) ==
    \A i \in DOMAIN lst : DOMAIN lst[i] = {Columns[n] : n \in 1..11}

\* C14: every record built by a scrape function, every record handed to save
\* and every row of the file has all eleven columns (one not supplied being
\* present and empty), and save writes the header with the eleven names in the
\* fixed order, also when there is no record.
C14_EveryRecordHasAllColumns ==
    /\ HasAllColumns(extracted)
    /\ HasAllColumns(all_)
    /\ HasAllColumns(output)
    /\ saved => header = Columns

\* C14 witness: the file has been written and holds a Property24 record taken
\* from a text block, which was given a title, a price and a location only.
C14_Witness ==
    /\ saved
    /\ \E i \in DOMAIN output :
         /\ output[i]["source"] = "Property24"
         /\ output[i]["location"] = "Nairobi"
         /\ output[i]["url"] = ""
         /\ output[i]["bedrooms"] = ""

\* C16: the run terminates in the dedup-and-write step: as long as the file is
\* not written, main has a next step to take (every loop being bounded by
\* MAX_PAGES, the steps are finitely many).
C16_RunReachesWrite == saved \/ ENABLED Next

\* C17 as stated: when the fetch or navigation of a page fails, no further page
\* is requested for that (source, listing type) pair: its scrape function
\* returns, and the run goes on with the next pair.
C17_FailureEndsPair == lastPage.failed => pc = "ret"

\* C17: when the fetch or navigation of a page fails, the loop it was requested
\* in ends and the page is not requested again: the scrape function returns,
\* or, in scrape_pigiame, goes on with page 1 of the next slug of the listing type.
C17_FailureEndsLoop ==
    lastPage.failed =>
        \/ pc = "ret"
        \/ /\ pc = "loop"
           /\ src = "PigiaMe"
           /\ slug = reqs[Len(reqs)].slug + 1
           /\ pn = 1

\* C17 witness: the navigation to a page of the first PigiaMe slug failed and
\* the second slug is about to be requested.
C17_Witness ==
    /\ lastPage.failed
    /\ src = "PigiaMe"
    /\ pc = "loop"
    /\ slug = 2

\* C18: after a page that gave records, the next page of the loop is requested
\* only if the page showed a next-page link (and the page number is below
\* MAX_PAGES): a page with records and no next link is the last of its loop.
C18_NextPageNeedsNextLink ==
    [][(pages' > pages /\ pn > 1 /\ Added(lastPage.ran) > 0)
          => (lastPage.next /\ pn <= MAX_PAGES)]_vars

\* C19: a record returned by a scrape function is missing from the file only if
\* an earlier record of the combined sequence has the same dedup key.
C19_DroppedOnlyAsDuplicate ==
    saved =>
        \A i \in DOMAIN extracted :
            \/ \E k \in DOMAIN output : output[k] = extracted[i]
            \/ \E j \in 1..(i - 1) : DedupKey(extracted[j]) = DedupKey(extracted[i])

\* C20 as stated: the page numbers requested within one (source, listing type)
\* pair start at 1 and are strictly increasing, none being requested twice.
C20_PagesIncreaseInPair ==
    /\ reqs # <<>> => reqs[1].pn = 1
    /\ \A i, j \in DOMAIN reqs : i < j => reqs[i].pn < reqs[j].pn

\* C20: the page numbers requested within one pagination loop (one per pair,
\* and one per slug of the pair in scrape_pigiame) are 1, 2, 3, ... in this
\* order, none being requested twice, and the loops of a pair's slugs run one
\* after the other.  (A page action is the request and the whole processing of
\* the page, so a page is processed before the next is requested.)
C20_PagesIncreaseInLoop ==
    /\ \A i \in DOMAIN reqs :
         reqs[i].pn = 1 + Cardinality({j \in 1..(i - 1) : reqs[j].slug = reqs[i].slug})
    /\ \A i, j \in DOMAIN reqs : i < j => reqs[i].slug <= reqs[j].slug

\* C20 witness: scrape_pigiame has requested the second page of its second
\* slug after the pages of its first slug.
C20_Witness ==
    /\ src = "PigiaMe"
    /\ \E i, j \in DOMAIN reqs :
         /\ i < j
         /\ reqs[i].slug = 1
         /\ reqs[j].slug = 2
         /\ reqs[j].pn = 2

\* C21: between two consecutive page requests of a run, when the earlier page
\* was fetched, the controller sleeps: no page is requested while the page
\* fetched before it has not been followed by a sleep().
C21_SleepBetweenRequests == [][pages' > pages => ~unslept]_vars

\* C22: when the extraction of one card or advert of a page raises, only that
\* unit is skipped: the scrape function goes on with the rest of the page and
\* with its pagination (it is in its loop or has returned), for every source.
C22_FaultyUnitOnlySkipped == lastPage.faulty => pc \in {"loop", "ret"}

\* C24: in scrape_pigiame a page without cards ends the loop of its slug through
\* the text branch only if the page itself gave text records: after a page with
\* no card, no text record and a next link, the loop goes on with the next page
\* of the slug (unless the page was the last of the range), whatever the
\* earlier pages and the earlier slug have given.
C24_TextBreakDependsOnPageOnly ==
    (/\ src = "PigiaMe"
     /\ lastPage.noDom
     /\ Added(lastPage.ran) = 0
     /\ lastPage.next
     /\ reqs[Len(reqs)].pn < MAX_PAGES)
        => /\ pc = "loop"
           /\ slug = reqs[Len(reqs)].slug
           /\ pn = reqs[Len(reqs)].pn + 1

(***************************************************************************)
(* Function-level specifications: the input is drawn from a bounded set    *)
(* and the function is applied to it.                                      *)
(***************************************************************************)
\* no run is in progress
RunIdle ==
    /\ HAS_PW = FALSE
    /\ pc = "idle"
    /\ src = ""
    /\ lt = "sale"
    /\ slug = 1
    /\ pn = 1
    /\ total = -1
    /\ results = <<>>
    /\ pwResults = <<>>
    /\ all_ = <<>>
    /\ output = <<>>
    /\ saved = FALSE
    /\ pages = 0
    /\ slugPages = 0
    /\ emptySeen = FALSE
    /\ extracted = <<>>
    /\ lastPage = NoPage
    /\ reqs = <<>>
    /\ returned = 0
    /\ header = <<>>
    /\ unslept = FALSE

\* the elements of lst at the indices of I, in order
AtIndices(lst, I) ==
    LET idx == SelectSeq([i \in 1..Len(lst) |-> i], LAMBDA i : i \in I)
    IN  [n \in 1..Len(idx) |-> lst[idx[n]]]

\* ---- dedup ----
DedupRecord(s, t, p, u) == row(s, "Sale", [title |-> t, price |-> p, url |-> u])

DedupRecords ==
    { DedupRecord("Jiji", "a", "", "u1"),
      DedupRecord("Property24", "b", "", "u1"),
      DedupRecord("Jiji", "ab", "c", ""),
      DedupRecord("PigiaMe", "a", "bc", ""),
      DedupRecord("Jiji", "", "", ""),
      DedupRecord("PigiaMe", "x", "", "u2") }

InitDedup ==
    /\ RunIdle
    /\ PipeIdle
    /\ arg \in SeqsUpTo(DedupRecords, MaxDedupLen)
    /\ ret = <<>>
    /\ called = FALSE

CallDedup ==
    /\ ~called
    /\ ret' = dedup(arg)
    /\ called' = TRUE
    /\ UNCHANGED arg
    /\ UNCHANGED runVars
    /\ UNCHANGED pipeVars

NextDedup == CallDedup

SpecDedup == InitDedup /\ [][NextDedup]_vars

\* C7 as stated: dedup returns the records of its input that are the first with
\* their derived key, in input order (a subsequence of the input that keeps the
\* first record of each key and drops the later ones).
C7_KeepsFirstOfEachKey ==
    called =>
        ret = AtIndices(arg, {i \in 1..Len(arg) :
                  \A j \in 1..(i - 1) : DedupKey(arg[j]) # DedupKey(arg[i])})

\* C7 amended: dedup returns, in input order, the records that are the first
\* with their derived key among those whose key is not empty; a record whose
\* url, title and price are all empty is dropped, even the first one.
C7_KeepsFirstOfEachNonEmptyKey ==
    called =>
        ret = AtIndices(arg, {i \in 1..Len(arg) :
                  /\ DedupKey(arg[i]) # ""
                  /\ \A j \in 1..(i - 1) : DedupKey(arg[j]) # DedupKey(arg[i])})

\* C7 witness: two records of different sources with the same non-empty url
\* have given one record, the earlier one.
C7_Witness ==
    /\ called
    /\ Len(arg) = 2
    /\ arg[1]["url"] # ""
    /\ arg[1]["url"] = arg[2]["url"]
    /\ arg[1]["source"] # arg[2]["source"]
    /\ ret = <<arg[1]>>

\* the two records are duplicates: the same non-empty url, or no url in either
\* and the same title and the same price
SameListing(a, b) ==
    \/ a["url"] # "" /\ a["url"] = b["url"]
    \/ a["url"] = "" /\ b["url"] = "" /\ a["title"] = b["title"] /\ a["price"] = b["price"]

\* C23: dedup collapses two records only when they have the same non-empty url,
\* or both have no url and the same title and the same price: a record that has
\* a url, a title or a price and no such duplicate before it in the list is in
\* the list dedup returns.
C23_CollapsesOnlyDuplicates ==
    called =>
        \A i \in DOMAIN arg :
            (/\ DedupKey(arg[i]) # ""
             /\ \A j \in 1..(i - 1) : ~SameListing(arg[j], arg[i]))
                => \E k \in DOMAIN ret : ret[k] = arg[i]

\* ---- parse_brk ----
BrkBlock(t, h, u) ==
    [title |-> t, h3 |-> h, href |-> u, loc |-> "", beds |-> "", baths |-> "", size |-> ""]

BrkFnBlocks ==
    { BrkBlock("Bedsit A1", "Bedsit A1KSh 1,000", "/listings/a1"),
      BrkBlock(" Bedsit  A1", "Bedsit A1KSh 1,000 ", "/listings/a1?m"),
      BrkBlock("Bedsit A1", "KSh 2", "/listings/b"),
      BrkBlock("Bedsit B2", "Bedsit B2KSh 1,000", ""),
      BrkBlock("Menu", "KSh 5", ""),
      BrkBlock("Bedsit C3", "call us", "/listings/c") }

InitBrk ==
    /\ RunIdle
    /\ PipeIdle
    /\ arg \in SeqsUpTo(BrkFnBlocks, MaxH2)
    /\ ret = <<>>
    /\ called = FALSE

CallParseBrk ==
    /\ ~called
    /\ ret' = parse_brk(arg, BRK_BASE)
    /\ called' = TRUE
    /\ UNCHANGED arg
    /\ UNCHANGED runVars
    /\ UNCHANGED pipeVars

NextBrk == CallParseBrk

SpecBrk == InitBrk /\ [][NextBrk]_vars

\* C10: the list parse_brk returns has no two records with the same title and
\* price, and is made of the first row in document order of each title+price.
C10_BrkUniqueTitlePrice ==
    called =>
        LET rows == BrkRows(arg, BRK_BASE, 1)
            Same(a, b) == a["title"] = b["title"] /\ a["price"] = b["price"]
        IN  /\ \A i, j \in 1..Len(ret) : i # j => ~Same(ret[i], ret[j])
            /\ ret = AtIndices(rows, {i \in 1..Len(rows) :
                          \A j \in 1..(i - 1) : ~Same(rows[j], rows[i])})

\* C10 witness: a page with the desktop and the mobile rendering of one listing
\* has given one record, the one of the first rendering.
C10_Witness ==
    /\ called
    /\ Len(arg) = 2
    /\ arg[1].href # arg[2].href
    /\ c(arg[1].title) = c(arg[2].title)
    /\ Len(ret) = 1
    /\ ret[1]["url"] = BRK_BASE \o arg[1].href

\* ---- parse_jiji_adverts ----
InitJijiAdverts ==
    /\ RunIdle
    /\ PipeIdle
    /\ arg \in SeqsUpTo(JsonTokens, MaxTokens)
    /\ ret = <<>>
    /\ called = FALSE

CallParseJijiAdverts ==
    /\ ~called
    /\ ret' = parse_jiji_adverts(arg)
    /\ called' = TRUE
    /\ UNCHANGED arg
    /\ UNCHANGED runVars
    /\ UNCHANGED pipeVars

NextJijiAdverts == CallParseJijiAdverts

SpecJijiAdverts == InitJijiAdverts /\ [][NextJijiAdverts]_vars

\* the array is cut off after n complete advert objects: "[", then n objects
\* separated by commas, then nothing, a comma, or the beginning of one more object
TruncatedAfter(ts, n) ==
    LET body == [k \in 1..(IF n = 0 THEN 0 ELSE 2 * n - 1) |->
                    IF k % 2 = 1 THEN "{}" ELSE ","]
        tails == IF n = 0 THEN {<<>>, <<"{">>} ELSE {<<>>, <<",">>, <<",", "{">>}
    IN  \E t \in tails : ts = <<"[">> \o body \o t

\* C9: from an adverts array that is cut off after n complete advert objects
\* parse_jiji_adverts returns those n objects (and nothing only when n = 0).
C9_TruncatedArrayRecovered ==
    called => \A n \in 0..MaxTokens : TruncatedAfter(arg, n) => Len(ret) = n

\* c(v), lines 60-61, on the strings over a letter, the space, the tab, the
\* newline and the no-break space
CChars == {"a", " ", "\t", "\n", NBSP}

RECURSIVE CStrings(_)
CStrings(n) ==
    IF n = 0 THEN {""}
    ELSE LET shorter == CStrings(n - 1)
         IN  shorter \cup {t \o ch : t \in shorter, ch \in CChars}

InitC ==
    /\ RunIdle
    /\ PipeIdle
    /\ arg \in CStrings(MaxStrLen)
    /\ ret = ""
    /\ called = FALSE

CallC ==
    /\ ~called
    /\ ret' = c(arg)
    /\ called' = TRUE
    /\ UNCHANGED arg
    /\ UNCHANGED runVars
    /\ UNCHANGED pipeVars

NextC == CallC

SpecC == InitC /\ [][NextC]_vars

\* C15: c is idempotent, and its result has no leading or trailing whitespace,
\* no two adjacent whitespace characters and no no-break space.
C15_NormalizerIdempotent ==
    called =>
        LET Ws == {" ", "\t", "\n", NBSP}
            n  == Len(ret)
        IN  /\ c(ret) = ret
            /\ n > 0 => (Char(ret, 1) \notin Ws /\ Char(ret, n) \notin Ws)
            /\ \A i \in 1..(n - 1) : ~(Char(ret, i) \in Ws /\ Char(ret, i + 1) \in Ws)
            /\ \A i \in 1..n : Char(ret, i) # NBSP

\* C15 witness: c was applied to a string with a no-break space next to a space
\* between two letters, and returned the letters with one space between them.
C15_Witness ==
    /\ called
    /\ Contains(arg, NBSP \o " ")
    /\ ret = "a a"

(***************************************************************************)
(* The periodic pipeline: weekly_pipeline.py and the Airflow DAG           *)
(***************************************************************************)

\* number of periodic runs followed
MaxRuns == 2

\* retries of a failed Airflow task (default_args)
RETRIES == 1

\* the tasks of a run, in run order
Stages == <<"scrape", "clean", "prepare", "notify">>

\* the file clean_properties.py reads when launched as a script
CLEAN_IN == "nairobi_properties_full.csv"

\* the files clean_properties.py writes
CLEAN_OUT == {"cleaned_properties.csv", "location_summary.csv"}

\* the file prepare_properties.py reads when launched without an argument
PREPARE_IN == "all_raw_listings.csv"

\* the files prepare_properties.py writes
PREPARE_OUT == {"nairobi_properties_full.csv", "location_summary.csv",
                "properties_with_summary.csv"}

\* scrape_listings.py is not part of the source: the files it writes are any
\* of the engine's output file and the files the later stages read
ScrapeOutputs == {"nairobi_properties.csv", PREPARE_IN, CLEAN_IN}

Files == ScrapeOutputs \cup CLEAN_OUT \cup PREPARE_OUT

\* a file that does not exist
NoFile == [run |-> 0, by |-> 0]

\* the file a stage's script reads
StageIn(k) == IF k = 2 THEN CLEAN_IN ELSE PREPARE_IN

\* the file system after stage k of this run wrote the files of S
Written(S, k) == [f \in Files |-> IF f \in S THEN [run |-> run, by |-> k] ELSE fs[f]]

\* stage k starts its script, which opens its input file
Reads(k) == readLog' = Append(readLog, [stage |-> k, file |-> StageIn(k), wrote |-> fs[StageIn(k)]])

NoStatus == [k \in 1..4 |-> "none"]

\* weekly_pipeline.py: the exit status of a script is not looked at, the next
\* call follows; an exception of send_email ends the run.
WeeklyTaskEnds(k, ok) ==
    /\ tries' = 0
    /\ stage' = k + 1
    /\ status' = [status EXCEPT ![k] = IF ok THEN "success" ELSE "failed"]
    /\ emails' = IF k = 4 /\ ok THEN Append(emails, "success") ELSE emails

\* Airflow: a failed task is tried again RETRIES times, then it has failed, a
\* failure email is sent and the tasks downstream of it do not run; a task
\* starts only when the task upstream of it succeeded.
AirflowTaskEnds(k, ok) ==
    IF ~ok /\ tries < RETRIES
    THEN /\ tries' = tries + 1
         /\ UNCHANGED <<stage, status, emails>>
    ELSE /\ tries' = 0
         /\ stage' = IF ok THEN k + 1 ELSE 5
         /\ status' = [j \in 1..4 |->
                          IF j = k THEN (IF ok THEN "success" ELSE "failed")
                          ELSE IF j > k /\ ~ok THEN "upstream_failed"
                          ELSE status[j]]
         /\ emails' = IF ~ok THEN Append(emails, "failure")
                      ELSE IF k = 4 THEN Append(emails, "success")
                      ELSE emails

TaskEnds(k, ok) ==
    IF orch = "weekly" THEN WeeklyTaskEnds(k, ok) ELSE AirflowTaskEnds(k, ok)

\* the scrape task: scrape_listings.py
RunScrape ==
    /\ stage = 1
    /\ \E ok \in BOOLEAN :
           /\ IF ok
              THEN \E out \in (SUBSET ScrapeOutputs) \ {{}} : fs' = Written(out, 1)
              ELSE fs' = fs
           /\ TaskEnds(1, ok)
    /\ UNCHANGED <<orch, run, readLog>>
    /\ UNCHANGED runVars
    /\ UNCHANGED fnVars

\* the clean task: clean_properties.py reads its input (the script fails when
\* the file does not exist) and writes its two files
RunClean ==
    /\ stage = 2
    /\ Reads(2)
    /\ \E ok \in {b \in BOOLEAN : b => fs[CLEAN_IN] # NoFile} :
           /\ fs' = IF ok THEN Written(CLEAN_OUT, 2) ELSE fs
           /\ TaskEnds(2, ok)
    /\ UNCHANGED <<orch, run>>
    /\ UNCHANGED runVars
    /\ UNCHANGED fnVars

\* the prepare task: prepare_properties.py reads its input (the script fails
\* when the file does not exist), writes its three files, then uploads the
\* table, which can fail after the files are written
RunPrepare ==
    /\ stage = 3
    /\ Reads(3)
    /\ \E end \in {e \in {"read_error", "upload_error", "ok"} :
                      e # "read_error" => fs[PREPARE_IN] # NoFile} :
           /\ fs' = IF end = "read_error" THEN fs ELSE Written(PREPARE_OUT, 3)
           /\ TaskEnds(3, end = "ok")
    /\ UNCHANGED <<orch, run>>
    /\ UNCHANGED runVars
    /\ UNCHANGED fnVars

\* the notify task: send_email() / the EmailOperator sends the "completed
\* successfully" email, or fails to send it
Notify ==
    /\ stage = 4
    /\ \E ok \in BOOLEAN : TaskEnds(4, ok)
    /\ UNCHANGED <<orch, run, fs, readLog>>
    /\ UNCHANGED runVars
    /\ UNCHANGED fnVars

\* the schedule starts the next run; the weekly scheduler has stopped when
\* send_email raised
NextRun ==
    /\ stage = 5
    /\ run < MaxRuns
    /\ ~(orch = "weekly" /\ status[4] = "failed")
    /\ run' = run + 1
    /\ stage' = 1
    /\ tries' = 0
    /\ status' = NoStatus
    /\ readLog' = <<>>
    /\ emails' = <<>>
    /\ UNCHANGED <<orch, fs>>
    /\ UNCHANGED runVars
    /\ UNCHANGED fnVars

InitPipeline ==
    /\ RunIdle
    /\ FnIdle
    /\ orch \in {"weekly", "airflow"}
    /\ run = 1
    /\ stage = 1
    /\ tries = 0
    /\ status = NoStatus
    /\ fs = [f \in Files |-> NoFile]
    /\ readLog = <<>>
    /\ emails = <<>>

NextPipeline ==
    \/ RunScrape
    \/ RunClean
    \/ RunPrepare
    \/ Notify
    \/ NextRun

SpecPipeline == InitPipeline /\ [][NextPipeline]_vars

\* C25: every stage of a run takes as input a file that the stage before it
\* wrote in the same run.
C25_InputsWrittenByPrecedingStage ==
    \A i \in 1..Len(readLog) :
        /\ readLog[i].wrote.run = run
        /\ readLog[i].wrote.by = readLog[i].stage - 1

\* C26: the "completed successfully" email of a run is sent only when the
\* scrape, clean and prepare tasks of the run all succeeded.
C26_SuccessEmailOnlyAfterSuccess ==
    (\E i \in 1..Len(emails) : emails[i] = "success") =>
        \A k \in 1..3 : status[k] = "success"

====
